---- MODULE Spec2Model ----
(***************************************************************************)
(* Runtime CPU-feature dispatch in the meson test programs:                *)
(*   - "test cases/common/139 simd/simdchecker.c" and                      *)
(*     "test cases/common/152 simd/simdchecker.c": the chained             *)
(*     if(fptr == NULL && <x>_available()) selection of an increment       *)
(*     kernel, its call and the check of the result;                       *)
(*   - "test cases/features/2 multi_targets": the DISPATCH_CALL macro of   *)
(*     dispatch.h and the main() that uses it.                             *)
(***************************************************************************)
EXTENDS Integers, Sequences, FiniteSets, TLC

(***************************************************************************)
(* Bounds of the model.                                                    *)
(***************************************************************************)
\* at most this many extensions are reported available by the host CPU
MaxAvail == 2
\* a build has at most this many extensions with HAVE_<X> == 0 in simdconfig.h ...
MaxDisabled == 1
\* ... or at most this many with HAVE_<X> non-zero
MaxEnabled == 1
\* at most this many dispatch targets in one dispatch<N>.conf.h
MaxTargets == 2
\* at most this many DISPATCH_CALL evaluations by a call site
MaxCalls == 3
\* at most this many calls of cpu_has made by a call site itself
MaxDirect == 2
\* a kernel is called on arrays of whole numbers of at most this magnitude
MaxAbs == 2

\* the most arguments a caller passes to a launcher
MaxArgs == 2
\* at most this many lines written by a child to its stderr
MaxLines == 2

(***************************************************************************)
(* simdchecker: the tiers, in the order the chain tests them.              *)
(***************************************************************************)
Chain139 == <<"SSE", "MMX">>

Chain152 == <<"NEON", "AVX2", "AVX", "SSE42", "SSE41", "SSSE3", "SSE3", "SSE2", "SSE", "MMX">>

\* every extension simdfuncs.h declares a probe and a kernel for
Exts == {"MMX", "SSE", "SSE2", "SSE3", "SSSE3", "SSE41", "SSE42", "AVX", "AVX2", "NEON", "ALTIVEC"}

SimdProgs == {"simd139", "simd152"}

Chain(p) == IF p = "simd139" THEN Chain139 ELSE Chain152

\* the kernel each tier's branch stores in fptr
FuncOf(t) ==
  CASE t = "NEON" -> "increment_neon"
    [] t = "AVX2" -> "increment_avx2"
    [] t = "AVX" -> "increment_avx"
    [] t = "SSE42" -> "increment_sse42"
    [] t = "SSE41" -> "increment_sse41"
    [] t = "SSSE3" -> "increment_ssse3"
    [] t = "SSE3" -> "increment_sse3"
    [] t = "SSE2" -> "increment_sse2"
    [] t = "SSE" -> "increment_sse"
    [] t = "MMX" -> "increment_mmx"
    [] t = "none" -> "increment_fallback"

\* the string each tier's branch stores in type
LabelOf(t) ==
  CASE t = "NEON" -> "NEON"
    [] t = "AVX2" -> "AVX2"
    [] t = "AVX" -> "AVX"
    [] t = "SSE42" -> "SSE42"
    [] t = "SSE41" -> "SSE41"
    [] t = "SSSE3" -> "SSSE3"
    [] t = "SSE3" -> "SSE3"
    [] t = "SSE2" -> "SSE2"
    [] t = "SSE" -> "SSE"
    [] t = "MMX" -> "MMX"
    [] t = "none" -> "fallback"

VARIABLES
  prog,     \* the program that runs
  pc,       \* its position
  at,       \* simdchecker: the index of the chain statement that runs next
  have,     \* the extensions whose HAVE_<X> is non-zero (simdconfig.h)
  cpu,      \* the extensions the host CPU supports
  fptr,     \* simdchecker: void (*fptr)(float[4])
  type,     \* simdchecker: const char *type
  four,     \* simdchecker: float four[4]
  probed,   \* the probe calls made so far, <<extension or feature, answer>>
  rc,       \* the exit status, -1 while running
  arch,     \* multi_targets: the architecture dispatch.h detects
  conf,     \* multi_targets: what the dispatch<N>.conf.h included last defines
  header,   \* multi_targets: the content of each dispatch<N>.conf.h
  dispatch1_str,
  dispatch2_str,
  dispatch3_str,
  calls,    \* the DISPATCH_CALL evaluations a call site has made so far
  threads,  \* per thread of a threaded call site: the evaluation it is making
  argv,     \* a launcher's argument vector, indexed from 0 as in C
  args,     \* the argument vector a launcher builds for exec, indexed from 0
  argi,     \* a launcher's loop index i over argv
  counter,  \* wrapper.c: int counter
  macros,   \* wrapper.c: the values of IS_PYTHON_SCRIPT and STATICALLY_LINKED
  written,  \* wrapper.c: the indices of args written, in the order of the stores
  nargs,    \* rustc-wrapper.c: int nargs
  file,     \* rustc-wrapper.c: char *file
  child,    \* rustc-wrapper.c: the child process: "none", "running" or "exited"
  emitted,  \* rustc-wrapper.c: the lines the child has written to its stderr
  infd,     \* rustc-wrapper.c: the bytes in the pipe that the parent has not read
  notify,   \* rustc-wrapper.c: the bytes written to the notify file
  status,   \* rustc-wrapper.c: int status, as waitpid stored it
  runtime_dir, \* appimage runtime: char *runtime_dir
  fs        \* appimage runtime: per directory, its meson-runtime/runtime-id.txt

simdVars == <<at, have, cpu, fptr, type, four>>

mtVars == <<arch, conf, header, dispatch1_str, dispatch2_str, dispatch3_str, calls, threads>>

runtimeVars == <<runtime_dir, fs>>

rustcVars == <<nargs, file, child, emitted, infd, notify, status>>

osVars == <<argv, args, argi, counter, macros, written,
            nargs, file, child, emitted, infd, notify, status, runtime_dir, fs>>

vars == <<prog, pc, probed, rc, simdVars, mtVars, osVars>>

(***************************************************************************)
(* The availability probes: <x>_available() returns                       *)
(* __builtin_cpu_supports("<x>"), a read of the host's feature bits.       *)
(***************************************************************************)
\* a probe stubbed to report every extension present
AvailableStub(t) == TRUE

Available(t) == t \in cpu

(***************************************************************************)
(* The kernels, on four[1..4] holding small whole numbers.                 *)
(***************************************************************************)
Pow16 == 65536

\* _mm_set_pi16 packs each element into a 16-bit lane, _mm_add_pi16 adds 1
\* with wrap-around, the loop unpacks each lane masked to 16 bits
increment_mmx(arr) == [i \in 1..4 |-> ((arr[i] % Pow16) + 1) % Pow16]

\* _mm_add_ps on the four lanes
increment_sse(arr) == [i \in 1..4 |-> arr[i] + 1]

\* _mm_set_pd(a, b) stores b in the low double: darr = [arr1+1, arr0+1, arr3+1, arr2+1]
PairedAdd(arr) == <<arr[2] + 1, arr[1] + 1, arr[4] + 1, arr[3] + 1>>

\* the stores back swap each pair again
increment_sse41(arr) ==
  LET darr == PairedAdd(arr)
  IN  <<darr[2], darr[1], darr[4], darr[3]>>

increment_sse42(arr) ==
  LET darr == PairedAdd(arr)
  IN  <<darr[2], darr[1], darr[4], darr[3]>>

\* the kernels that use a load or store which requires a 16-byte aligned address:
\* _mm_load_ps(arr) on the caller's float[4], _mm_store_pd(darr, ..) on a local
\* double darr[4]
AlignedAccess(f) == f \in {"increment_sse", "increment_sse41", "increment_sse42"}

\* the kernels simdfuncs.h declares and whose files are not part of the sources
\* read here: each adds one to every element
increment_declared(arr) == [i \in 1..4 |-> arr[i] + 1]

CallKernel(f, arr) ==
  CASE f = "increment_mmx" -> increment_mmx(arr)
    [] f = "increment_sse" -> increment_sse(arr)
    [] f = "increment_sse41" -> increment_sse41(arr)
    [] f = "increment_sse42" -> increment_sse42(arr)
    [] OTHER -> increment_declared(arr)

expected == <<3, 4, 5, 6>>

(***************************************************************************)
(* multi_targets: dispatch.h, dispatch1.c and main.c.                      *)
(***************************************************************************)
\* the feature checks that pass whatever is defined
ImpliedNothing(f) == {}

\* the features a target's feature brings with it: a build for SSSE3 must define
\* HAVE_SSE3, HAVE_SSE2 and HAVE_SSE, one for ASIMD the three NEON macros
ImpliedFeatures(f) ==
  CASE f = "SSSE3" -> {"SSE3", "SSE2", "SSE"}
    [] f = "ASIMD" -> {"NEON", "NEON_FP16", "NEON_VFPV4"}
    [] OTHER -> {}

CPU_SSE == 1
CPU_SSE2 == 2
CPU_SSE3 == 3
CPU_SSSE3 == 4
CPU_SSE41 == 5
CPU_NEON == 6
CPU_NEON_FP16 == 7
CPU_NEON_VFPV4 == 8
CPU_ASIMD == 9

Archs == {"TEST_X86", "TEST_ARM64", "TEST_ARM", "OTHER"}

\* a probe that answers yes only until it has been asked once
cpu_has_first_only(feature_id) == probed = <<>>

\* a probe that answers yes only the first time it is asked about a feature
cpu_has_once(feature_id) == \A i \in DOMAIN probed : probed[i][1] # feature_id

\* int cpu_has(int feature_id) { return 1; }
cpu_has(feature_id) == TRUE

\* a function designator or NULL, as DISPATCH_CALL yields it
NULL == [sym |-> "NULL", tgt |-> ""]

Unset == [sym |-> "unset", tgt |-> ""]

\* the dispatch targets a dispatch<N>.conf.h may list: the name and the features
\* its entry hands to CPU_TEST
TargetSet ==
  { [name |-> "SSSE3", tests |-> <<CPU_SSSE3>>],
    [name |-> "SSE41", tests |-> <<CPU_SSE41>>],
    [name |-> "ASIMD", tests |-> <<CPU_ASIMD>>] }

RECURSIVE SeqsUpTo(_, _)
SeqsUpTo(S, n) ==
  IF n = 0 THEN {<<>>}
  ELSE LET shorter == SeqsUpTo(S, n - 1)
       IN  shorter \cup {Append(q, x) : q \in shorter, x \in S}

\* MTARGETS_CONF_DISPATCH lists the targets in order, MTARGETS_CONF_BASELINE is
\* empty or names the baseline
Confs == [targets : SeqsUpTo(TargetSet, MaxTargets), baseline : BOOLEAN]

NoConf == [targets |-> <<>>, baseline |-> FALSE]

\* CPU_TEST of one target: its features joined by &&, evaluated left to right
RECURSIVE TestedFeatures(_)
TestedFeatures(tests) ==
  IF tests = <<>> THEN TRUE
  ELSE IF cpu_has(Head(tests)) THEN TestedFeatures(Tail(tests)) ELSE FALSE

\* the cpu_has calls that evaluation makes
RECURSIVE TestCalls(_)
TestCalls(tests) ==
  IF tests = <<>> THEN <<>>
  ELSE IF cpu_has(Head(tests))
         THEN <<<<Head(tests), TRUE>>>> \o TestCalls(Tail(tests))
         ELSE <<<<Head(tests), FALSE>>>>

\* the expansion with the baseline branch emitted whether or not a baseline is configured
RECURSIVE DISPATCH_CALL_CB_AlwaysBase(_, _, _)
DISPATCH_CALL_CB_AlwaysBase(NAME, targets, baseline) ==
  IF targets = <<>>
    THEN [sym |-> NAME, tgt |-> ""]
    ELSE IF TestedFeatures(Head(targets).tests)
           THEN [sym |-> NAME, tgt |-> Head(targets).name]
           ELSE DISPATCH_CALL_CB_AlwaysBase(NAME, Tail(targets), baseline)

\* the expansion taking the last target that passes instead of the first
RECURSIVE DISPATCH_CALL_CB_LastWins(_, _, _)
DISPATCH_CALL_CB_LastWins(NAME, targets, baseline) ==
  IF targets = <<>>
    THEN IF baseline THEN [sym |-> NAME, tgt |-> ""] ELSE NULL
    ELSE LET rest == DISPATCH_CALL_CB_LastWins(NAME, Tail(targets), FALSE)
         IN  IF rest # NULL THEN rest
             ELSE IF TestedFeatures(Head(targets).tests)
                    THEN [sym |-> NAME, tgt |-> Head(targets).name]
                    ELSE IF baseline THEN [sym |-> NAME, tgt |-> ""] ELSE NULL

\* #define DISPATCH_CALL(NAME) ( (T1) ? NAME_T1 : (T2) ? NAME_T2 : ... (1) ? NAME : NULL )
RECURSIVE DISPATCH_CALL_CB(_, _, _)
DISPATCH_CALL_CB(NAME, targets, baseline) ==
  IF targets = <<>>
    THEN IF baseline THEN [sym |-> NAME, tgt |-> ""] ELSE NULL
    ELSE IF TestedFeatures(Head(targets).tests)
           THEN [sym |-> NAME, tgt |-> Head(targets).name]
           ELSE DISPATCH_CALL_CB(NAME, Tail(targets), baseline)

DISPATCH_CALL(NAME, c) == DISPATCH_CALL_CB(NAME, c.targets, c.baseline)

\* the cpu_has calls one evaluation of DISPATCH_CALL makes
RECURSIVE DispatchProbes(_)
DispatchProbes(targets) ==
  IF targets = <<>> THEN <<>>
  ELSE IF TestedFeatures(Head(targets).tests)
         THEN TestCalls(Head(targets).tests)
         ELSE TestCalls(Head(targets).tests) \o DispatchProbes(Tail(targets))

\* return TOSTRING(DISPATCH_CURRENT(dispatch1)): the name of the function compiled
\* for the target, as a string of tokens
DISPATCH_CURRENT(f) == IF f.tgt = "" THEN <<f.sym>> ELSE <<f.sym, "_", f.tgt>>

exp_dispatch1_str ==
  CASE arch = "TEST_X86" -> <<"dispatch1", "_", "SSSE3">>
    [] arch = "TEST_ARM64" -> <<"dispatch1">>
    [] arch = "TEST_ARM" -> <<"dispatch1", "_", "ASIMD">>
    [] OTHER -> <<"dispatch1">>

exp_dispatch2_str ==
  CASE arch = "TEST_X86" -> <<"dispatch2", "_", "SSE41">>
    [] arch \in {"TEST_ARM64", "TEST_ARM"} -> <<"dispatch2", "_", "ASIMD">>
    [] OTHER -> <<"dispatch2">>

RustcIdle ==
  /\ nargs = 0
  /\ file = "NULL"
  /\ child = "none"
  /\ emitted = <<>>
  /\ infd = <<>>
  /\ notify = <<>>
  /\ status = -1

RuntimeIdle ==
  /\ runtime_dir = <<>>
  /\ fs = <<>>

OsIdle ==
  /\ argv = <<>>
  /\ args = <<>>
  /\ argi = 0
  /\ counter = 0
  /\ macros = <<>>
  /\ written = <<>>
  /\ RustcIdle
  /\ RuntimeIdle

MtIdle ==
  /\ arch = "OTHER"
  /\ conf = NoConf
  /\ header = <<>>
  /\ dispatch1_str = <<>>
  /\ dispatch2_str = <<>>
  /\ dispatch3_str = Unset
  /\ calls = <<>>
  /\ threads = <<>>

SimdIdle ==
  /\ at = 0
  /\ have = {}
  /\ cpu = {}
  /\ fptr = "NULL"
  /\ type = "uninit"
  /\ four = <<2, 3, 4, 5>>

InitMt ==
  /\ prog = "mtargets"
  /\ pc = "include1"
  /\ probed = <<>>
  /\ rc = -1
  /\ SimdIdle
  /\ arch \in Archs
  /\ conf = NoConf
  /\ header = <<>>
  /\ dispatch1_str = <<>>
  /\ dispatch2_str = <<>>
  /\ dispatch3_str = Unset
  /\ calls = <<>>
  /\ threads = <<>>
  /\ OsIdle

\* #include "dispatch<N>.conf.h": the macros now hold that header's lists.
\* dispatch1 and dispatch2 are called, which compiles unless the macro is the bare
\* NULL; dispatch.h declares no dispatch3 function, so dispatch3.conf.h names none
Include ==
  /\ prog = "mtargets"
  /\ pc \in {"include1", "include2", "include3"}
  /\ conf' \in IF pc = "include3" THEN {NoConf} ELSE Confs \ {NoConf}
  /\ pc' = CASE pc = "include1" -> "call1" [] pc = "include2" -> "call2" [] OTHER -> "call3"
  /\ UNCHANGED <<prog, osVars, probed, rc, simdVars, arch, header, dispatch1_str, dispatch2_str, dispatch3_str, calls, threads>>

\* const char *dispatch1_str = DISPATCH_CALL(dispatch1)();
\* if (strcmp(dispatch1_str, exp_dispatch1_str) != 0) return 1;
Dispatch1 ==
  /\ prog = "mtargets"
  /\ pc = "call1"
  /\ LET f == DISPATCH_CALL("dispatch1", conf)
     IN  /\ probed' = probed \o DispatchProbes(conf.targets)
         /\ IF f = NULL
              THEN /\ pc' = "crashed"
                   /\ rc' = 139
                   /\ dispatch1_str' = dispatch1_str
              ELSE /\ dispatch1_str' = DISPATCH_CURRENT(f)
                   /\ IF DISPATCH_CURRENT(f) # exp_dispatch1_str
                        THEN pc' = "done" /\ rc' = 1
                        ELSE pc' = "include2" /\ rc' = rc
  /\ UNCHANGED <<prog, osVars, simdVars, arch, conf, header, dispatch2_str, dispatch3_str, calls, threads>>

\* const char *dispatch2_str = DISPATCH_CALL(dispatch2)();
\* if (strcmp(dispatch2_str, exp_dispatch2_str) != 0) return 2;
Dispatch2 ==
  /\ prog = "mtargets"
  /\ pc = "call2"
  /\ LET f == DISPATCH_CALL("dispatch2", conf)
     IN  /\ probed' = probed \o DispatchProbes(conf.targets)
         /\ IF f = NULL
              THEN /\ pc' = "crashed"
                   /\ rc' = 139
                   /\ dispatch2_str' = dispatch2_str
              ELSE /\ dispatch2_str' = DISPATCH_CURRENT(f)
                   /\ IF DISPATCH_CURRENT(f) # exp_dispatch2_str
                        THEN pc' = "done" /\ rc' = 2
                        ELSE pc' = "include3" /\ rc' = rc
  /\ UNCHANGED <<prog, osVars, simdVars, arch, conf, header, dispatch1_str, dispatch3_str, calls, threads>>

\* the third evaluation resetting the strings obtained before it
Dispatch3Clears ==
  /\ prog = "mtargets"
  /\ pc = "call3"
  /\ LET f == DISPATCH_CALL("dispatch3", conf)
     IN  /\ probed' = probed \o DispatchProbes(conf.targets)
         /\ dispatch3_str' = f
         /\ rc' = IF f # NULL THEN 3 ELSE 0
  /\ pc' = "done"
  /\ dispatch1_str' = <<>>
  /\ dispatch2_str' = <<>>
  /\ UNCHANGED <<prog, osVars, simdVars, arch, conf, header, calls, threads>>

\* const char *dispatch3_str = DISPATCH_CALL(dispatch3);
\* if (dispatch3_str != NULL) return 3;  return 0;
Dispatch3 ==
  /\ prog = "mtargets"
  /\ pc = "call3"
  /\ LET f == DISPATCH_CALL("dispatch3", conf)
     IN  /\ probed' = probed \o DispatchProbes(conf.targets)
         /\ dispatch3_str' = f
         /\ rc' = IF f # NULL THEN 3 ELSE 0
  /\ pc' = "done"
  /\ UNCHANGED <<prog, osVars, simdVars, arch, conf, header, dispatch1_str, dispatch2_str, calls, threads>>

(***************************************************************************)
(* simdchecker: initial states.                                            *)
(***************************************************************************)
Builds ==
  {h \in SUBSET Exts : Cardinality(Exts \ h) <= MaxDisabled \/ Cardinality(h) <= MaxEnabled}

Hosts == {c \in SUBSET Exts : Cardinality(c) <= MaxAvail}

InitSimd ==
  /\ prog \in SimdProgs
  /\ pc = "chain"
  /\ at = 1
  /\ have \in Builds
  /\ cpu \in Hosts
  /\ fptr = "NULL"
  /\ type = "uninit"
  /\ four = <<2, 3, 4, 5>>
  /\ probed = <<>>
  /\ rc = -1
  /\ MtIdle
  /\ OsIdle

(***************************************************************************)
(* simdchecker main(): one step per statement.                             *)
(***************************************************************************)
\* the chain with the fallback block under the #if of the last tier
EntriesGuardedFallback(p, h) ==
  SelectSeq(Chain(p), LAMBDA t : t \in h)
    \o (IF Chain(p)[Len(Chain(p))] \in h THEN <<"none">> ELSE <<>>)

\* the chain with every tier block kept whatever simdconfig.h says
EntriesUnconditional(p, h) == Chain(p) \o <<"none">>

\* the unconditional fallback block moved above the tier blocks
EntriesFallbackFirst(p, h) == <<"none">> \o SelectSeq(Chain(p), LAMBDA t : t \in h)

\* the chain as the preprocessor leaves it: the blocks whose #if HAVE_<X> holds, in
\* source order, then the unconditional fallback block ("none": no extension)
Entries(p, h) == SelectSeq(Chain(p), LAMBDA t : t \in h) \o <<"none">>

\* the tier statement taking its block out of the chain once it has been tried
TierStepConsumes ==
  /\ prog \in SimdProgs
  /\ pc = "chain"
  /\ at \in DOMAIN Entries(prog, have)
  /\ Entries(prog, have)[at] # "none"
  /\ LET t == Entries(prog, have)[at]
         called == fptr = "NULL"
         taken == called /\ Available(t)
     IN  /\ probed' = IF called THEN Append(probed, <<t, Available(t)>>) ELSE probed
         /\ fptr' = IF taken THEN FuncOf(t) ELSE fptr
         /\ type' = IF taken THEN LabelOf(t) ELSE type
         /\ have' = have \ {t}
  /\ pc' = "chain"
  /\ at' = at
  /\ UNCHANGED <<prog, osVars, cpu, four, rc, mtVars>>

\* the tier statement with the assignment to type left out
TierStepNoLabel ==
  /\ prog \in SimdProgs
  /\ pc = "chain"
  /\ at \in DOMAIN Entries(prog, have)
  /\ Entries(prog, have)[at] # "none"
  /\ LET t == Entries(prog, have)[at]
         called == fptr = "NULL"
         taken == called /\ Available(t)
     IN  /\ probed' = IF called THEN Append(probed, <<t, Available(t)>>) ELSE probed
         /\ fptr' = IF taken THEN FuncOf(t) ELSE fptr
         /\ type' = type
  /\ pc' = IF at = Len(Entries(prog, have)) THEN "call" ELSE "chain"
  /\ at' = at + 1
  /\ UNCHANGED <<prog, osVars, have, cpu, four, rc, mtVars>>

\* the tier statement without the fptr == NULL test: the last match wins
TierStepLastWins ==
  /\ prog \in SimdProgs
  /\ pc = "chain"
  /\ at \in DOMAIN Entries(prog, have)
  /\ Entries(prog, have)[at] # "none"
  /\ LET t == Entries(prog, have)[at]
     IN  /\ probed' = Append(probed, <<t, Available(t)>>)
         /\ fptr' = IF Available(t) THEN FuncOf(t) ELSE fptr
         /\ type' = IF Available(t) THEN LabelOf(t) ELSE type
  /\ pc' = IF at = Len(Entries(prog, have)) THEN "call" ELSE "chain"
  /\ at' = at + 1
  /\ UNCHANGED <<prog, osVars, have, cpu, four, rc, mtVars>>

\* if(fptr == NULL && <x>_available()) { fptr = increment_<x>; type = "<X>"; }
TierStep ==
  /\ prog \in SimdProgs
  /\ pc = "chain"
  /\ at \in DOMAIN Entries(prog, have)
  /\ Entries(prog, have)[at] # "none"
  /\ LET t == Entries(prog, have)[at]
         called == fptr = "NULL"
         taken == called /\ Available(t)
     IN  /\ probed' = IF called THEN Append(probed, <<t, Available(t)>>) ELSE probed
         /\ fptr' = IF taken THEN FuncOf(t) ELSE fptr
         /\ type' = IF taken THEN LabelOf(t) ELSE type
  /\ pc' = IF at = Len(Entries(prog, have)) THEN "call" ELSE "chain"
  /\ at' = at + 1
  /\ UNCHANGED <<prog, osVars, have, cpu, four, rc, mtVars>>

\* the fallback statement without its fptr == NULL test
FallbackStepAlways ==
  /\ prog \in SimdProgs
  /\ pc = "chain"
  /\ at \in DOMAIN Entries(prog, have)
  /\ Entries(prog, have)[at] = "none"
  /\ fptr' = FuncOf("none")
  /\ type' = LabelOf("none")
  /\ pc' = IF at = Len(Entries(prog, have)) THEN "call" ELSE "chain"
  /\ at' = at + 1
  /\ UNCHANGED <<prog, osVars, have, cpu, four, probed, rc, mtVars>>

\* the fallback statement left out
FallbackStepSkipped ==
  /\ prog \in SimdProgs
  /\ pc = "chain"
  /\ at \in DOMAIN Entries(prog, have)
  /\ Entries(prog, have)[at] = "none"
  /\ pc' = IF at = Len(Entries(prog, have)) THEN "call" ELSE "chain"
  /\ at' = at + 1
  /\ UNCHANGED <<prog, osVars, have, cpu, fptr, type, four, probed, rc, mtVars>>

\* if(fptr == NULL) { fptr = increment_fallback; type = "fallback"; }
FallbackStep ==
  /\ prog \in SimdProgs
  /\ pc = "chain"
  /\ at \in DOMAIN Entries(prog, have)
  /\ Entries(prog, have)[at] = "none"
  /\ fptr' = IF fptr = "NULL" THEN FuncOf("none") ELSE fptr
  /\ type' = IF fptr = "NULL" THEN LabelOf("none") ELSE type
  /\ pc' = IF at = Len(Entries(prog, have)) THEN "call" ELSE "chain"
  /\ at' = at + 1
  /\ UNCHANGED <<prog, osVars, have, cpu, four, probed, rc, mtVars>>

\* the call with every load and store taken to succeed wherever the array lies
CallStepNoFault ==
  /\ prog \in SimdProgs
  /\ pc = "call"
  /\ fptr # "NULL"
  /\ pc' = "check"
  /\ rc' = rc
  /\ four' = CallKernel(fptr, four)
  /\ UNCHANGED <<prog, osVars, at, have, cpu, fptr, type, probed, mtVars>>

\* printf("Using %s.\n", type); fptr(four);
\* a call through a null pointer ends the process on a signal ("crashed"); so does
\* an aligned load or store on an array that does not lie on a 16-byte boundary
\* ("fault"), and whether float four[4] or double darr[4] lies on one is not fixed
\* by their declarations: both outcomes are possible
CallStep ==
  /\ prog \in SimdProgs
  /\ pc = "call"
  /\ IF fptr = "NULL"
       THEN /\ pc' = "crashed"
            /\ rc' = 139
            /\ four' = four
       ELSE \/ /\ pc' = "check"
               /\ rc' = rc
               /\ four' = CallKernel(fptr, four)
            \/ /\ AlignedAccess(fptr)
               /\ pc' = "fault"
               /\ rc' = 139
               /\ four' = four
  /\ UNCHANGED <<prog, osVars, at, have, cpu, fptr, type, probed, mtVars>>

\* for(i=0; i<4; i++) if(four[i] != expected[i]) return 1;  return 0;
CheckStep ==
  /\ prog \in SimdProgs
  /\ pc = "check"
  /\ rc' = IF \E i \in 1..4 : four[i] # expected[i] THEN 1 ELSE 0
  /\ pc' = "done"
  /\ UNCHANGED <<prog, osVars, at, have, cpu, fptr, type, four, probed, mtVars>>

Init == InitSimd \/ InitMt

Next ==
  \/ TierStep
  \/ FallbackStep
  \/ CallStep
  \/ CheckStep
  \/ Include
  \/ Dispatch1
  \/ Dispatch2
  \/ Dispatch3

Spec == Init /\ [][Next]_vars

(***************************************************************************)
(* Any call site of DISPATCH_CALL: it includes a dispatch<N>.conf.h and     *)
(* evaluates the macro, any number of times and for any of the declared    *)
(* operations.                                                             *)
(***************************************************************************)
CallOps == {"dispatch1", "dispatch2"}

InitCalls ==
  /\ prog = "callsite"
  /\ pc = "run"
  /\ probed = <<>>
  /\ rc = -1
  /\ SimdIdle
  /\ arch \in {"TEST_X86"}
  /\ conf = NoConf
  /\ header \in [CallOps -> Confs \ {NoConf}]
  /\ dispatch1_str = <<>>
  /\ dispatch2_str = <<>>
  /\ dispatch3_str = Unset
  /\ calls = <<>>
  /\ threads = <<>>
  /\ OsIdle

\* a call site that keeps the first result per operation and reuses it
ResolveMemo ==
  /\ prog = "callsite"
  /\ Len(calls) < MaxCalls
  /\ \E op \in CallOps :
       LET seen == \E i \in DOMAIN calls : calls[i].op = op
           asked == IF seen THEN <<>> ELSE DispatchProbes(header[op].targets)
       IN  /\ conf' = header[op]
           /\ probed' = probed \o asked
           /\ calls' = Append(calls, [op |-> op,
                                      fn |-> DISPATCH_CALL(op, header[op]),
                                      probes |-> asked])
  /\ UNCHANGED <<prog, osVars, pc, rc, simdVars, arch, header, dispatch1_str, dispatch2_str, dispatch3_str, threads>>

\* #include "<op>.conf.h"  ...  DISPATCH_CALL(<op>)
Resolve ==
  /\ prog = "callsite"
  /\ Len(calls) < MaxCalls
  /\ \E op \in CallOps :
       /\ conf' = header[op]
       /\ probed' = probed \o DispatchProbes(header[op].targets)
       /\ calls' = Append(calls, [op |-> op,
                                  fn |-> DISPATCH_CALL(op, header[op]),
                                  probes |-> DispatchProbes(header[op].targets)])
  /\ UNCHANGED <<prog, osVars, pc, rc, simdVars, arch, header, dispatch1_str, dispatch2_str, dispatch3_str, threads>>

SpecCalls == InitCalls /\ [][Resolve]_vars

(***************************************************************************)
(* A call site that also calls the probe itself, at any point between its   *)
(* DISPATCH_CALL evaluations.                                               *)
(***************************************************************************)
\* the features such a call site asks about: one no target tests, one a target tests
DirectFeatures == {CPU_SSE, CPU_SSSE3}

RECURSIVE ProbesOfCalls(_)
ProbesOfCalls(cs) == IF cs = <<>> THEN 0 ELSE Len(cs[1].probes) + ProbesOfCalls(Tail(cs))

\* the probe calls made so far outside a DISPATCH_CALL evaluation
DirectCalls == Len(probed) - ProbesOfCalls(calls)

InitProbe ==
  /\ prog = "callsite"
  /\ pc = "run"
  /\ probed = <<>>
  /\ rc = -1
  /\ SimdIdle
  /\ arch \in {"TEST_X86"}
  /\ conf = NoConf
  /\ header \in [CallOps -> {c \in Confs \ {NoConf} : Len(c.targets) <= 1}]
  /\ dispatch1_str = <<>>
  /\ dispatch2_str = <<>>
  /\ dispatch3_str = Unset
  /\ calls = <<>>
  /\ threads = <<>>
  /\ OsIdle

\* a probe that drops what the call site has resolved so far
ProbeCallForgets ==
  /\ prog = "callsite"
  /\ DirectCalls < MaxDirect
  /\ \E f \in DirectFeatures : probed' = Append(probed, <<f, cpu_has(f)>>)
  /\ calls' = <<>>
  /\ conf' = NoConf
  /\ UNCHANGED <<prog, osVars, pc, rc, simdVars, arch, header, dispatch1_str, dispatch2_str, dispatch3_str, threads>>

\* cpu_has(feature_id): returns 1 and assigns nothing
ProbeCall ==
  /\ prog = "callsite"
  /\ DirectCalls < MaxDirect
  /\ \E f \in DirectFeatures : probed' = Append(probed, <<f, cpu_has(f)>>)
  /\ UNCHANGED <<prog, osVars, pc, rc, simdVars, mtVars>>

SpecProbe == InitProbe /\ [][Resolve \/ ProbeCall]_vars

(***************************************************************************)
(* A call site with two threads, each evaluating DISPATCH_CALL for an       *)
(* operation of its choice, again and again, with no lock: one step per     *)
(* condition of the conditional expression the macro expands to.            *)
(***************************************************************************)
Threads == {"t1", "t2"}

\* a dispatch<N>.conf.h names each target once
ThreadConfs ==
  {c \in Confs \ {NoConf} :
     \A i, j \in DOMAIN c.targets : i # j => c.targets[i] # c.targets[j]}

InitThreads ==
  /\ prog = "threads"
  /\ pc = "run"
  /\ probed = <<>>
  /\ rc = -1
  /\ SimdIdle
  /\ arch \in {"TEST_X86"}
  /\ conf = NoConf
  /\ header \in [CallOps -> ThreadConfs]
  /\ dispatch1_str = <<>>
  /\ dispatch2_str = <<>>
  /\ dispatch3_str = Unset
  /\ calls = <<>>
  /\ threads = [t \in Threads |-> [st |-> "idle", op |-> "", pos |-> 0, fn |-> NULL]]
  /\ OsIdle

\* a thread starts an evaluation of DISPATCH_CALL(<op>)
ThreadCall(t) ==
  /\ prog = "threads"
  /\ threads[t].st \in {"idle", "done"}
  /\ \E op \in CallOps :
       threads' = [threads EXCEPT ![t] = [st |-> "eval", op |-> op, pos |-> 1, fn |-> NULL]]
  /\ UNCHANGED <<prog, osVars, pc, probed, rc, simdVars, arch, conf, header, dispatch1_str, dispatch2_str, dispatch3_str, calls>>

\* the value the evaluation has when it is at the pos-th condition of the header c
ThreadOutcome(r, c) ==
  IF r.pos <= Len(c.targets)
    THEN IF TestedFeatures(c.targets[r.pos].tests)
           THEN [r EXCEPT !.st = "done", !.fn = [sym |-> r.op, tgt |-> c.targets[r.pos].name]]
           ELSE [r EXCEPT !.pos = r.pos + 1]
    ELSE [r EXCEPT !.st = "done",
                   !.fn = IF c.baseline THEN [sym |-> r.op, tgt |-> ""] ELSE NULL]

\* the evaluation keeping its result in one slot that all threads share
ThreadTestShared(t) ==
  /\ prog = "threads"
  /\ threads[t].st = "eval"
  /\ threads' = [u \in Threads |-> ThreadOutcome(threads[t], header[threads[t].op])]
  /\ UNCHANGED <<prog, osVars, pc, probed, rc, simdVars, arch, conf, header, dispatch1_str, dispatch2_str, dispatch3_str, calls>>

\* (CPU_TEST(T)) ? NAME_T : ...  (1) ? NAME : NULL -- the next condition, in the
\* thread's own evaluation
ThreadTest(t) ==
  /\ prog = "threads"
  /\ threads[t].st = "eval"
  /\ threads' = [threads EXCEPT ![t] = ThreadOutcome(threads[t], header[threads[t].op])]
  /\ UNCHANGED <<prog, osVars, pc, probed, rc, simdVars, arch, conf, header, dispatch1_str, dispatch2_str, dispatch3_str, calls>>

NextThreads == \E t \in Threads : ThreadCall(t) \/ ThreadTest(t)

SpecThreads == InitThreads /\ [][NextThreads]_vars

(***************************************************************************)
(* Any caller of a kernel: increment_<x>(arr) on an array of its own.       *)
(***************************************************************************)
KernelNames == {FuncOf(Chain152[i]) : i \in DOMAIN Chain152} \cup {FuncOf("none")}

InitKernel ==
  /\ prog = "kernel"
  /\ pc = "call"
  /\ at = 1
  /\ have = {}
  /\ cpu = {}
  /\ fptr \in KernelNames
  /\ type = "uninit"
  /\ four \in [1..4 -> (0 - MaxAbs)..MaxAbs]
  /\ probed = <<>>
  /\ rc = -1
  /\ MtIdle
  /\ OsIdle

\* increment_<x>(arr); the kernels with an aligned load or store may fault instead
KernelCall ==
  /\ prog = "kernel"
  /\ pc = "call"
  /\ \/ /\ pc' = "returned"
        /\ rc' = rc
        /\ four' = CallKernel(fptr, four)
     \/ /\ AlignedAccess(fptr)
        /\ pc' = "fault"
        /\ rc' = 139
        /\ four' = four
  /\ UNCHANGED <<prog, osVars, at, have, cpu, fptr, type, probed, mtVars>>

SpecKernel == InitKernel /\ [][KernelCall]_vars

(***************************************************************************)
(* The compilation of dispatch1.c for one dispatch target (or the baseline):*)
(* the build defines HAVE_<F> for the features it enables for that target. *)
(***************************************************************************)
\* the features of enum cpu features in dispatch.h
Features == {"SSE", "SSE2", "SSE3", "SSSE3", "SSE41", "NEON", "NEON_FP16", "NEON_VFPV4", "ASIMD"}

InitBuild ==
  /\ prog = "build"
  /\ pc = "compile"
  /\ at = 0
  /\ have \in SUBSET Features
  /\ cpu = {}
  /\ fptr = "NULL"
  /\ type = "uninit"
  /\ four = <<2, 3, 4, 5>>
  /\ probed = <<>>
  /\ rc = -1
  /\ MtIdle
  /\ OsIdle

\* #ifdef HAVE_<F> ... #ifndef HAVE_<G> #error: the features whose implied features
\* are not all defined
MissingImplied(defs) == {f \in defs : ~(ImpliedFeatures(f) \subseteq defs)}

\* the preprocessor stops at the first #error; otherwise the function is compiled
CompileDispatch1 ==
  /\ prog = "build"
  /\ pc = "compile"
  /\ \/ /\ MissingImplied(have) # {}
        /\ pc' = "error"
        /\ rc' = 1
     \/ /\ MissingImplied(have) = {}
        /\ pc' = "compiled"
        /\ rc' = 0
  /\ UNCHANGED <<prog, osVars, simdVars, probed, mtVars>>

SpecBuild == InitBuild /\ [][CompileDispatch1]_vars

(***************************************************************************)
(* packaging/appimage/wrappers/wrapper.c: the exe wrapper builds the       *)
(* argument vector args[argc + 3] and execs the real executable.           *)
(***************************************************************************)
\* the arguments a caller may pass
CallerArgs == {"a", "b"}

\* a C array holding the elements of the sequence s at the indices 0..Len(s)-1
Arr(s) == [k \in 0..(Len(s) - 1) |-> s[k + 1]]

\* the number of elements of the C array a
argc == Cardinality(DOMAIN argv)

\* the elements of args up to its first NULL, as execv reads them
RECURSIVE UpToNull(_, _)
UpToNull(a, k) ==
  IF k \notin DOMAIN a \/ a[k] = "NULL" THEN <<>>
  ELSE <<a[k]>> \o UpToNull(a, k + 1)

InitWrapper ==
  /\ prog = "wrapper"
  /\ pc = "start"
  /\ probed = <<>>
  /\ rc = -1
  /\ SimdIdle
  /\ MtIdle
  /\ macros \in [IS_PYTHON_SCRIPT : {0, 1}, STATICALLY_LINKED : {0, 1}]
  /\ argv \in {Arr(<<"wrapper">> \o s) : s \in SeqsUpTo(CallerArgs, MaxArgs)}
  /\ args = [k \in 0..(Cardinality(DOMAIN argv) + 2) |-> "NULL"]
  /\ argi = 0
  /\ counter = 0
  /\ written = <<>>
  /\ RustcIdle
  /\ RuntimeIdle

\* counter = 2 + IS_PYTHON_SCRIPT - STATICALLY_LINKED; for (int i = 1; ...
CounterStart ==
  /\ prog = "wrapper"
  /\ pc = "start"
  /\ counter' = 2 + macros.IS_PYTHON_SCRIPT - macros.STATICALLY_LINKED
  /\ argi' = 1
  /\ pc' = "loop"
  /\ UNCHANGED <<prog, probed, rc, simdVars, mtVars, runtimeVars, argv, args, macros, written, rustcVars>>

\* a store to args[k]; outside the array it is undefined behaviour
StoreArg(k, v) ==
  /\ written' = Append(written, k)
  /\ IF k \in DOMAIN args
     THEN args' = [args EXCEPT ![k] = v] /\ rc' = rc
     ELSE args' = args /\ rc' \in {rc, 139}

\* args[counter++] = argv[i];
FillStep ==
  /\ prog = "wrapper"
  /\ pc = "loop"
  /\ argi < argc
  /\ StoreArg(counter, argv[argi])
  /\ counter' = counter + 1
  /\ argi' = argi + 1
  /\ UNCHANGED <<prog, pc, probed, simdVars, mtVars, runtimeVars, argv, macros, rustcVars>>

\* args[counter++] = NULL;
NullStep ==
  /\ prog = "wrapper"
  /\ pc = "loop"
  /\ argi >= argc
  /\ StoreArg(counter, "NULL")
  /\ counter' = counter + 1
  /\ pc' = "prefix"
  /\ UNCHANGED <<prog, probed, simdVars, mtVars, runtimeVars, argv, argi, macros, rustcVars>>

\* the stores of the three branches of #if IS_PYTHON_SCRIPT
LauncherPrefix ==
  IF macros.IS_PYTHON_SCRIPT # 0 THEN <<"ld_linux", "python3", "exe_path">>
  ELSE IF macros.STATICALLY_LINKED # 0 THEN <<"exe_path">>
  ELSE <<"ld_linux", "exe_path">>

PrefixStep ==
  /\ prog = "wrapper"
  /\ pc = "prefix"
  /\ args' = [k \in DOMAIN args |->
                IF k < Len(LauncherPrefix) THEN LauncherPrefix[k + 1] ELSE args[k]]
  /\ written' = written \o [k \in 1..Len(LauncherPrefix) |-> k - 1]
  /\ pc' = "exec"
  /\ UNCHANGED <<prog, probed, rc, simdVars, mtVars, runtimeVars, argv, argi, counter, macros, rustcVars>>

\* execv(args[0], args): the process image is replaced, or DIE exits with 1
ExecStep ==
  /\ prog = "wrapper"
  /\ pc = "exec"
  /\ \/ pc' = "execed" /\ rc' = rc
     \/ pc' = "died" /\ rc' = 1
  /\ UNCHANGED <<prog, probed, simdVars, mtVars, osVars>>

NextWrapper == CounterStart \/ FillStep \/ NullStep \/ PrefixStep \/ ExecStep

SpecWrapper == InitWrapper /\ [][NextWrapper]_vars

(***************************************************************************)
(* rustc-wrapper.c: runs rustc with its stderr on a pipe and copies the    *)
(* path of each artifact notification to the file named by --notify.       *)
(* A byte string is a sequence of tokens: "P1" "P2" are the two halves of  *)
(* the prefix {"artifact":" , "Q" is a double quote, "N" a newline, "R"    *)
(* and "X" stand for other text.                                           *)
(***************************************************************************)
\* the arguments rustc-wrapper may be given
RustcArgs == {"--notify", "f", "x"}

\* the paths of the artifacts
Paths == {"p", "q"}

\* const char *prefix = "{\"artifact\":\""
prefix == <<"P1", "P2">>

\* size_t prefix_len = strlen(prefix)
prefix_len == Len(prefix)

\* char input[10000]
sizeof_input == 10000

\* an artifact notification of rustc: {"artifact":"<path>","emit":"link"}
ArtifactLine(path) == prefix \o <<path, "Q", "R", "N">>

\* any other line of rustc's stderr
OtherLine == <<"X", "N">>

Lines == {ArtifactLine(path) : path \in Paths} \cup {OtherLine}

\* strchr(s, c): the index of the first c in s, 0 for a null pointer
strchr(s, c) ==
  IF \E k \in DOMAIN s : s[k] = c
  THEN CHOOSE k \in DOMAIN s : s[k] = c /\ \A j \in 1..(k - 1) : s[j] # c
  ELSE 0

\* strncmp(s, t, n) == 0
strncmp0(s, t, n) ==
  \A k \in 1..n : k \in DOMAIN s /\ k \in DOMAIN t /\ s[k] = t[k]

InitRustc ==
  /\ prog = "rustc-wrapper"
  /\ pc = "parse"
  /\ probed = <<>>
  /\ rc = -1
  /\ SimdIdle
  /\ MtIdle
  /\ argv \in {Arr(<<"rustc-wrapper">> \o s) : s \in SeqsUpTo(RustcArgs, MaxArgs + 2)}
  /\ args = [k \in 0..Cardinality(DOMAIN argv) |-> "NULL"]
  /\ argi = 1
  /\ nargs = 1
  /\ file = "NULL"
  /\ child = "none"
  /\ emitted = <<>>
  /\ infd = <<>>
  /\ notify = <<>>
  /\ status = -1
  /\ counter = 0
  /\ macros = <<>>
  /\ written = <<>>
  /\ RuntimeIdle

wrapperVars == <<counter, macros, written>>

\* one iteration of for (int i = 1; i < argc; i++); argv[argc] is a null pointer
ParseStepKeepsFile ==
  /\ prog = "rustc-wrapper"
  /\ pc = "parse"
  /\ argi < argc
  /\ IF argv[argi] = "--notify"
     THEN /\ file' = (IF argi + 1 < argc THEN argv[argi + 1] ELSE "NULL")
          /\ args' = [args EXCEPT ![nargs] = argv[argi]]
          /\ nargs' = nargs + 1
          /\ argi' = argi + 1
     ELSE /\ args' = [args EXCEPT ![nargs] = argv[argi]]
          /\ nargs' = nargs + 1
          /\ argi' = argi + 1
          /\ file' = file
  /\ UNCHANGED <<prog, pc, probed, rc, simdVars, mtVars, runtimeVars, argv, wrapperVars,
                 child, emitted, infd, notify, status>>

ParseStep ==
  /\ prog = "rustc-wrapper"
  /\ pc = "parse"
  /\ argi < argc
  /\ IF argv[argi] = "--notify"
     THEN /\ file' = (IF argi + 1 < argc THEN argv[argi + 1] ELSE "NULL")
          /\ argi' = argi + 2
          /\ UNCHANGED <<args, nargs>>
     ELSE /\ args' = [args EXCEPT ![nargs] = argv[argi]]
          /\ nargs' = nargs + 1
          /\ argi' = argi + 1
          /\ file' = file
  /\ UNCHANGED <<prog, pc, probed, rc, simdVars, mtVars, runtimeVars, argv, wrapperVars,
                 child, emitted, infd, notify, status>>

\* args[0] = "rustc"; args[nargs] = NULL; if (file == NULL) exit(1);
ParseEnd ==
  /\ prog = "rustc-wrapper"
  /\ pc = "parse"
  /\ argi >= argc
  /\ args' = [args EXCEPT ![0] = "rustc", ![nargs] = "NULL"]
  /\ IF file = "NULL"
     THEN pc' = "done" /\ rc' = 1
     ELSE pc' = "fork" /\ rc' = rc
  /\ UNCHANGED <<prog, probed, simdVars, mtVars, runtimeVars, argv, argi, wrapperVars,
                 nargs, file, child, emitted, infd, notify, status>>

\* pipe(infd); fork(); the child puts the pipe on its stderr and execs args; the
\* parent closes its write end and opens the notify file
ForkStep ==
  /\ prog = "rustc-wrapper"
  /\ pc = "fork"
  /\ child' = "running"
  /\ pc' = "read"
  /\ UNCHANGED <<prog, probed, rc, simdVars, mtVars, runtimeVars, argv, args, argi, wrapperVars,
                 nargs, file, emitted, infd, notify, status>>

\* the child writes a line to its stderr
ChildEmit ==
  /\ prog = "rustc-wrapper"
  /\ child = "running"
  /\ Len(emitted) < MaxLines
  /\ \E line \in Lines :
       /\ emitted' = Append(emitted, line)
       /\ infd' = infd \o line
  /\ UNCHANGED <<prog, pc, probed, rc, simdVars, mtVars, runtimeVars, argv, args, argi,
                 wrapperVars, nargs, file, child, notify, status>>

\* the child ends, which closes the last write end of the pipe
ChildExit ==
  /\ prog = "rustc-wrapper"
  /\ child = "running"
  /\ child' \in {"exited 0", "exited 1"}
  /\ UNCHANGED <<prog, pc, probed, rc, simdVars, mtVars, runtimeVars, argv, args, argi,
                 wrapperVars, nargs, file, emitted, infd, notify, status>>

\* what the loop body does with the len bytes read() returned: the notify file
\* after it, or "fault" where p is a null pointer or input[len] is past the array
Handle(input) ==
  LET len == Len(input)
      path == SubSeq(input, prefix_len + 1, len)
      p == strchr(path, "Q")
  IN  IF len >= sizeof_input THEN {"fault", notify}
      ELSE IF len > prefix_len /\ strncmp0(input, prefix, prefix_len)
      THEN IF p = 0 THEN {"fault"}
           ELSE {notify \o SubSeq(path, 1, p - 1) \o <<"N">>}
      ELSE {notify}

\* len = read(infd[0], input, sizeof(input)) with len > 0, and the rest of the body
ReadStep ==
  /\ prog = "rustc-wrapper"
  /\ pc = "read"
  /\ \E len \in 1..Len(infd) :
       /\ len <= sizeof_input
       /\ infd' = SubSeq(infd, len + 1, Len(infd))
       /\ \E out \in Handle(SubSeq(infd, 1, len)) :
            IF out = "fault"
            THEN pc' = "fault" /\ rc' = 139 /\ notify' = notify
            ELSE pc' = pc /\ rc' = rc /\ notify' = out
  /\ UNCHANGED <<prog, probed, simdVars, mtVars, runtimeVars, argv, args, argi, wrapperVars,
                 nargs, file, child, emitted, status>>

\* the wait status of a child that has ended
WaitStatus == IF child = "exited 0" THEN 0 ELSE 256

\* read() returns 0 at end-of-file: the pipe is empty and no write end is open;
\* waitpid(child, &status, 0); return status != 0 ? 1 : 0;
EofStep ==
  /\ prog = "rustc-wrapper"
  /\ pc = "read"
  /\ infd = <<>>
  /\ child \in {"exited 0", "exited 1"}
  /\ status' = WaitStatus
  /\ rc' = (IF WaitStatus # 0 THEN 1 ELSE 0)
  /\ pc' = "done"
  /\ UNCHANGED <<prog, probed, simdVars, mtVars, runtimeVars, argv, args, argi, wrapperVars,
                 nargs, file, child, emitted, infd, notify>>

NextRustc ==
  ParseStep \/ ParseEnd \/ ForkStep \/ ChildEmit \/ ChildExit \/ ReadStep \/ EofStep

SpecRustc == InitRustc /\ [][NextRustc]_vars

(***************************************************************************)
(* packaging/appimage/runtime/main.c: the portable runtime looks for an    *)
(* already extracted runtime, handles the --runtime options and otherwise  *)
(* mounts itself.  A string is a sequence of tokens; "--runtime" is one    *)
(* token, the character after it another, the rest of an option a third.   *)
(* The null pointer is the empty string.                                   *)
(***************************************************************************)
\* the length of a UUID: for (int i = 0; i < 36;)
UuidLen == 36

\* the status appimage's libruntime.h names EXIT_EXECERROR
EXIT_EXECERROR == 127

\* the UUID of this build of the runtime, from runtime-config.h
BUILD_ID == [k \in 1..UuidLen |-> "u"]

\* the UUID of another build
OtherId == [BUILD_ID EXCEPT ![UuidLen] = "v"]

\* the characters below '-' in the ASCII table
BelowDash == {"\n", " "}

\* what a runtime-id.txt may hold
IdTexts == {BUILD_ID, BUILD_ID \o <<"\n">>, OtherId}

\* the directories an argument may name, and the current directory
BuildDirs == {<<"d1">>, <<"d2">>}

CurrentDir == <<".">>

\* the --runtime options an argument may be
RuntimeOpts ==
  {<<"--runtime", "-", opt>> : opt \in {"help", "version", "info", "setup", "bogus"}}

\* appimage_starts_with("--runtime", arg)
appimage_starts_with_runtime(arg) == Len(arg) >= 1 /\ arg[1] = "--runtime"

\* CHECK_OPT(opt): (strlen(argv[i]) > 10) && (strcmp(opt, argv[i] + 10) == 0)
CHECK_OPT(opt, arg) == Len(arg) > 2 /\ SubSeq(arg, 3, Len(arg)) = <<opt>>

\* the loop of check_existing_runtime: the first n characters of text that are not
\* below '-'
RECURSIVE ReadUUID(_, _)
ReadUUID(text, n) ==
  IF n = 0 \/ text = <<>> THEN <<>>
  ELSE IF Head(text) \in BelowDash THEN ReadUUID(Tail(text), n)
       ELSE <<Head(text)>> \o ReadUUID(Tail(text), n - 1)

\* check_existing_runtime accepting any runtime-id.txt that exists
check_existing_runtime_any(build_dir) ==
  IF build_dir \notin DOMAIN fs THEN <<>> ELSE build_dir

\* check_existing_runtime(build_dir): the runtime directory of build_dir, or NULL
check_existing_runtime(build_dir) ==
  IF build_dir \notin DOMAIN fs THEN <<>>
  ELSE IF ReadUUID(fs[build_dir], UuidLen) = BUILD_ID THEN build_dir
       ELSE <<>>

InitRuntime ==
  /\ prog = "runtime"
  /\ pc = "detect"
  /\ probed = <<>>
  /\ rc = -1
  /\ SimdIdle
  /\ MtIdle
  /\ argv \in {Arr(<<(<<"meson">>)>> \o s) : s \in SeqsUpTo(BuildDirs \cup RuntimeOpts, MaxArgs)}
  /\ fs \in UNION {[D -> IdTexts] : D \in SUBSET (BuildDirs \cup {CurrentDir})}
  /\ runtime_dir = <<>>
  /\ args = <<>>
  /\ argi = 0
  /\ counter = 0
  /\ macros = <<>>
  /\ written = <<>>
  /\ RustcIdle

\* if (!appimage_detect_context(&context, argc, argv)) return EXIT_EXECERROR;
DetectStep ==
  /\ prog = "runtime"
  /\ pc = "detect"
  /\ \/ pc' = "scan" /\ argi' = 1 /\ rc' = rc
     \/ pc' = "done" /\ argi' = argi /\ rc' = EXIT_EXECERROR
  /\ UNCHANGED <<prog, probed, simdVars, mtVars, runtimeVars, argv, args,
                 wrapperVars, rustcVars>>

\* setup_build_dir(&context, build_dir): extracts the runtime into
\* build_dir/meson-runtime and writes BUILD_ID to its runtime-id.txt, or fails
setup_build_dir(build_dir) ==
  \/ fs' = [d \in DOMAIN fs \cup {build_dir} |-> IF d = build_dir THEN BUILD_ID ELSE fs[d]]
  \/ fs' = fs

\* one iteration of for (int i = 1; i < argc; i++)
ScanStep ==
  /\ prog = "runtime"
  /\ pc = "scan"
  /\ argi < argc
  /\ runtime_dir' = (IF runtime_dir = <<>> THEN check_existing_runtime(argv[argi])
                     ELSE runtime_dir)
  /\ IF ~appimage_starts_with_runtime(argv[argi])
     THEN argi' = argi + 1 /\ UNCHANGED <<pc, rc, fs>>
     ELSE IF \/ CHECK_OPT("help", argv[argi])
             \/ CHECK_OPT("version", argv[argi])
             \/ CHECK_OPT("info", argv[argi])
     THEN pc' = "done" /\ rc' = 0 /\ UNCHANGED <<argi, fs>>
     ELSE IF CHECK_OPT("setup", argv[argi])
     THEN IF argi >= argc - 1
          THEN pc' = "done" /\ rc' = 1 /\ UNCHANGED <<argi, fs>>
          ELSE /\ setup_build_dir(argv[argi + 1])
               /\ argi' = argi + 1
               /\ pc' = "done"
               /\ rc' = 0
     ELSE pc' = "done" /\ rc' = 1 /\ UNCHANGED <<argi, fs>>
  /\ UNCHANGED <<prog, probed, simdVars, mtVars, argv, args, wrapperVars, rustcVars>>

\* after the loop: the current directory is checked; exec_already_extracted_runtime
\* execs fakebin/meson of the runtime found or exits with EXIT_EXECERROR
ScanEnd ==
  /\ prog = "runtime"
  /\ pc = "scan"
  /\ argi >= argc
  /\ runtime_dir' = (IF runtime_dir = <<>> THEN check_existing_runtime(CurrentDir)
                     ELSE runtime_dir)
  /\ IF runtime_dir' # <<>>
     THEN \/ pc' = "execed" /\ rc' = rc
          \/ pc' = "execfailed" /\ rc' = EXIT_EXECERROR
     ELSE pc' = "mount" /\ rc' = rc
  /\ UNCHANGED <<prog, probed, simdVars, mtVars, fs, argv, args, argi,
                 wrapperVars, rustcVars>>

\* appimage_self_mount(...): mounts and runs the AppRun, or fails
MountStep ==
  /\ prog = "runtime"
  /\ pc = "mount"
  /\ \/ pc' = "mounted" /\ rc' = 0
     \/ pc' = "mountfailed" /\ rc' = EXIT_EXECERROR
  /\ UNCHANGED <<prog, probed, simdVars, mtVars, osVars>>

NextRuntime == DetectStep \/ ScanStep \/ ScanEnd \/ MountStep

SpecRuntime == InitRuntime /\ [][NextRuntime]_vars

(***************************************************************************)
(* Properties.                                                             *)
(***************************************************************************)
\* the positions of the chain whose tier is compiled in and available on the host
Usable == {i \in DOMAIN Chain(prog) : Chain(prog)[i] \in have /\ Chain(prog)[i] \in cpu}

Min(S) == CHOOSE x \in S : \A y \in S : x <= y

Resolved == prog \in SimdProgs /\ pc \in {"call", "check", "done"}

\* C1: once the simdchecker chain has run, the kernel and the label are those of the
\* first tier, in chain order, that is compiled in and available on the host, and
\* they are the fallback's exactly when no tier is
C1_FirstAvailable ==
  Resolved =>
    IF Usable = {}
      THEN fptr = "increment_fallback" /\ type = "fallback"
      ELSE /\ fptr = FuncOf(Chain(prog)[Min(Usable)])
           /\ type = LabelOf(Chain(prog)[Min(Usable)])
           /\ type # "fallback"

\* two tiers are usable and the higher one was chosen
C1_Witness ==
  /\ Resolved
  /\ prog = "simd152"
  /\ Cardinality(Usable) = 2
  /\ type = Chain152[Min(Usable)]

\* C2: when the host reports every extension unavailable, the chain selects the
\* fallback and the call is made through a non-null pointer: no crash
C2_AllUnavailableFallback ==
  (prog \in SimdProgs /\ cpu = {}) =>
    /\ pc # "crashed"
    /\ rc # 139
    /\ Resolved => (fptr = "increment_fallback" /\ type = "fallback")
    /\ \A i \in DOMAIN probed : probed[i][2] = FALSE

\* every compiled-in probe was asked, answered no, and the fallback ran
C2_Witness ==
  /\ prog = "simd152"
  /\ cpu = {}
  /\ pc = "done"
  /\ Len(probed) = Len(Chain152)
  /\ type = "fallback"

\* C3: after the chain, simdchecker holds a kernel in fptr: the pointer is not NULL
\* where it is called, and no run ends in a call through NULL
C3_NeverNull ==
  /\ Resolved => fptr # "NULL"
  /\ pc # "crashed"

\* a tier was selected, and in another run the fallback, and the call is about to happen
C3_Witness ==
  /\ prog \in SimdProgs
  /\ pc = "call"
  /\ fptr \notin {"NULL", "increment_fallback"}

\* C4: whatever tiers are compiled in, the simdchecker chain has exactly one entry that
\* needs no extension, it is the last one, and when no tier was selected before it
\* the run selects it
C4_OneFallback ==
  prog \in SimdProgs =>
    LET e == Entries(prog, have)
    IN  /\ Cardinality({i \in DOMAIN e : e[i] = "none"}) = 1
        /\ e[Len(e)] = "none"
        /\ pc = "chain" => at \in DOMAIN e
        /\ (Resolved /\ \A i \in DOMAIN probed : ~probed[i][2]) => fptr = "increment_fallback"

\* a build with a tier disabled reached its fallback entry with nothing selected
C4_Witness ==
  /\ prog = "simd152"
  /\ have # Exts
  /\ pc = "chain"
  /\ Entries(prog, have)[at] = "none"
  /\ fptr = "NULL"

\* C7 as stated: resolving an operation that has no entry fails
C7_FailsUnknownOperation ==
  (prog = "mtargets" /\ pc = "done" /\ dispatch3_str # Unset) => rc # 0

\* C7 as amended: DISPATCH_CALL of an operation with no target and no baseline yields
\* NULL, which main() takes as the expected outcome and exits 0, and the evaluation
\* leaves the strings obtained for dispatch1 and dispatch2 as they were
C7_NullAndOthersKept ==
  [][(prog = "mtargets" /\ pc = "call3" /\ conf = NoConf) =>
       /\ dispatch3_str' = NULL
       /\ rc' = 0
       /\ pc' = "done"
       /\ dispatch1_str' = dispatch1_str
       /\ dispatch2_str' = dispatch2_str]_vars

\* dispatch1 and dispatch2 were resolved to a target, then dispatch3 gave NULL
C7_Witness ==
  /\ prog = "mtargets"
  /\ pc = "done"
  /\ dispatch3_str = NULL
  /\ dispatch1_str = <<"dispatch1", "_", "SSSE3">>
  /\ dispatch2_str = <<"dispatch2", "_", "SSE41">>
  /\ rc = 0

\* C8: two evaluations of DISPATCH_CALL for the same operation yield the same function,
\* hence the same name string
C8_SameResultTwice ==
  \A i, j \in DOMAIN calls :
    calls[i].op = calls[j].op =>
      /\ calls[i].fn = calls[j].fn
      /\ DISPATCH_CURRENT(calls[i].fn) = DISPATCH_CURRENT(calls[j].fn)

\* one operation was resolved twice, to a dispatch target
C8_Witness ==
  \E i, j \in DOMAIN calls :
    /\ i < j
    /\ calls[i].op = calls[j].op
    /\ calls[j].fn.tgt # ""

\* C9 as stated: an evaluation after the first one for an operation asks no probe
C9_NoProbeAfterFirst ==
  \A i, j \in DOMAIN calls :
    (i < j /\ calls[i].op = calls[j].op) => calls[j].probes = <<>>

\* C9 as amended: every evaluation for an operation, the first and the later ones
\* alike, calls cpu_has for the features of its targets, in order, up to the first
\* target that passes, and yields the same function: nothing is memoized
C9_ProbesEveryTime ==
  \A i, j \in DOMAIN calls :
    (i < j /\ calls[i].op = calls[j].op) =>
      /\ calls[j].fn = calls[i].fn
      /\ calls[j].probes = calls[i].probes
      /\ header[calls[j].op].targets # <<>> =>
           /\ calls[j].probes # <<>>
           /\ calls[j].probes[1][1] = header[calls[j].op].targets[1].tests[1]
      /\ Len(probed) >= Len(calls[i].probes) + Len(calls[j].probes)

\* a second evaluation for an operation has called cpu_has again
C9_Witness ==
  \E i, j \in DOMAIN calls :
    /\ i < j
    /\ calls[i].op = calls[j].op
    /\ calls[j].probes # <<>>

\* C10: every probe call about one extension or feature gets the same answer, and a
\* simdchecker probe's answer is the host's feature bit
C10_SameAnswer ==
  /\ \A i, j \in DOMAIN probed : probed[i][1] = probed[j][1] => probed[i][2] = probed[j][2]
  /\ prog \in SimdProgs => \A i \in DOMAIN probed : probed[i][2] = (probed[i][1] \in cpu)

\* cpu_has was asked twice about one feature, by two DISPATCH_CALL evaluations
C10_Witness ==
  \E i, j \in DOMAIN probed : i < j /\ probed[i][1] = probed[j][1]

\* position of a tier in the source of the chain
Pos(t) == CHOOSE i \in DOMAIN Chain(prog) : Chain(prog)[i] = t

C13_ProbeChangesNothing ==
  /\ [][ProbeCall => (header' = header /\ conf' = conf /\ calls' = calls)]_vars
  /\ [](\A i \in DOMAIN calls : calls[i].fn = DISPATCH_CALL(calls[i].op, header[calls[i].op]))

\* the probe was called before the first evaluation and again between two evaluations
C13_Witness ==
  /\ prog = "callsite"
  /\ Len(calls) = 2
  /\ DirectCalls = 2
  /\ calls[1].probes # <<>>
  /\ probed[1][1] = CPU_SSE
  /\ probed[Len(probed) - Len(calls[2].probes)][1] = CPU_SSE
  /\ calls[2].fn.tgt # ""

\* C14: the kernel the chain selected, whichever tier it is, applied to the sample
\* vector [2, 3, 4, 5], leaves 3, 4, 5, 6 in the array, each at the index of its input
C14_SampleIncremented ==
  (prog \in SimdProgs /\ pc \in {"check", "fault", "done"}) =>
    \A i \in 1..4 : four[i] = <<2, 3, 4, 5>>[i] + 1

\* C15: a kernel that returns has left element + 1 in every element of the array,
\* as the increment-by-one fallback does, for every array of whole numbers that fit
\* in 16 bits
C15_ElementPlusOne ==
  [][(prog = "kernel" /\ pc = "call" /\ pc' = "returned") =>
       \A i \in 1..4 : four'[i] = four[i] + 1]_vars

\* C16: whatever the host's extensions, once simdchecker has called the kernel it
\* selected, the array holds what the fallback kernel leaves on the same arguments,
\* and the run goes on to exit 0: the outcome does not depend on the tier
C16_SameAsFallback ==
  (prog \in SimdProgs /\ pc \notin {"chain", "call"}) =>
    /\ four = CallKernel(FuncOf("none"), <<2, 3, 4, 5>>)
    /\ pc \in {"check", "done"}
    /\ pc = "done" => rc = 0

C19_NoErrorAfterInit ==
  (prog \in SimdProgs /\ pc # "chain" /\ fptr # "NULL") =>
    /\ pc \in {"call", "check", "done"}
    /\ rc \in {-1, 0}

\* C20: in simdchecker fptr and type are set together and from one tier: type is
\* unset exactly while fptr is NULL, and otherwise they are the kernel and the label
\* of the same entry of the chain; in multi_targets the string returned by the
\* function DISPATCH_CALL chose is "<name>_<T>" for the target T it chose, the first
\* of the header, and "<name>" when the header has no target and the baseline is chosen
C20_LabelNamesTier ==
  /\ prog \in SimdProgs =>
       /\ (fptr = "NULL") <=> (type = "uninit")
       /\ fptr # "NULL" =>
            \E i \in DOMAIN Entries(prog, have) :
              /\ fptr = FuncOf(Entries(prog, have)[i])
              /\ type = LabelOf(Entries(prog, have)[i])
              /\ i <= Len(probed) + 1
              /\ i <= Len(probed) => probed[i][2]
  /\ (prog = "mtargets" /\ (pc = "include2" \/ (pc = "done" /\ rc = 1))) =>
       dispatch1_str = IF conf.targets = <<>>
                         THEN <<"dispatch1">>
                         ELSE <<"dispatch1", "_", conf.targets[1].name>>
  /\ (prog = "mtargets" /\ (pc = "include3" \/ (pc = "done" /\ rc = 2))) =>
       dispatch2_str = IF conf.targets = <<>>
                         THEN <<"dispatch2">>
                         ELSE <<"dispatch2", "_", conf.targets[1].name>>

\* the third tier asked was selected: the kernel and the label are both its own
C20_Witness ==
  /\ prog = "simd152"
  /\ pc = "call"
  /\ Len(probed) = 3
  /\ fptr = "increment_sse42"
  /\ type = "SSE42"

\* the indices of the targets of a header all of whose tested features pass cpu_has
Passing(c) ==
  {i \in DOMAIN c.targets :
     \A k \in DOMAIN c.targets[i].tests : cpu_has(c.targets[i].tests[k])}

\* the name string of the first passing target of a header, of the baseline if none
FirstPassingStr(NAME, c) ==
  IF Passing(c) # {}
    THEN <<NAME, "_", c.targets[Min(Passing(c))].name>>
    ELSE <<NAME>>

\* C21: in main(), DISPATCH_CALL(dispatch1) and DISPATCH_CALL(dispatch2) yield the
\* function of the first target of the included header, in configuration order, whose
\* tested features all pass cpu_has, and the baseline function when the header has
\* no passing target; on x86 main() accepts the result exactly when that first
\* target is SSSE3 for dispatch1 and SSE41 for dispatch2
C21_FirstPassingTarget ==
  prog = "mtargets" =>
    /\ (pc = "include2" \/ (pc = "done" /\ rc = 1)) =>
         /\ dispatch1_str = FirstPassingStr("dispatch1", conf)
         /\ Passing(conf) = {} => conf.baseline
         /\ arch = "TEST_X86" =>
              ((pc = "include2") <=>
                 (conf.targets # <<>> /\ conf.targets[1].name = "SSSE3"))
    /\ (pc = "include3" \/ (pc = "done" /\ rc = 2)) =>
         /\ dispatch2_str = FirstPassingStr("dispatch2", conf)
         /\ Passing(conf) = {} => conf.baseline
         /\ arch = "TEST_X86" =>
              ((pc = "include3") <=>
                 (conf.targets # <<>> /\ conf.targets[1].name = "SSE41"))

\* on x86 a header with two targets, SSE41 first, was included for dispatch2 and the
\* first one was selected, after SSSE3 had been selected for dispatch1
C21_Witness ==
  /\ prog = "mtargets"
  /\ arch = "TEST_X86"
  /\ pc = "include3"
  /\ Len(conf.targets) = 2
  /\ conf.targets[2].name # "SSE41"
  /\ dispatch1_str = <<"dispatch1", "_", "SSSE3">>
  /\ dispatch2_str = <<"dispatch2", "_", "SSE41">>

\* C22: a run of main() that gets as far as dispatch3, whose header configures no
\* target and no baseline, gets NULL from DISPATCH_CALL(dispatch3) without a cpu_has
\* call, and ends with the strings obtained for dispatch1 and dispatch2 still the
\* ones that passed their checks
C22_NullForUnconfigured ==
  (prog = "mtargets" /\ pc = "done" /\ dispatch3_str # Unset) =>
    /\ conf = NoConf
    /\ dispatch3_str = NULL
    /\ dispatch1_str = exp_dispatch1_str
    /\ dispatch2_str = exp_dispatch2_str
    /\ \A i \in DOMAIN probed : probed[i][1] \in {CPU_SSSE3, CPU_SSE41, CPU_ASIMD}
    /\ Len(probed) <= 2

\* on ARM, dispatch1 and dispatch2 resolved to ASIMD and dispatch3 then gave NULL
C22_Witness ==
  /\ prog = "mtargets"
  /\ arch = "TEST_ARM"
  /\ pc = "done"
  /\ dispatch3_str = NULL
  /\ dispatch1_str = <<"dispatch1", "_", "ASIMD">>
  /\ dispatch2_str = <<"dispatch2", "_", "ASIMD">>
  /\ Len(probed) = 2

\* C23: every dispatch target for which dispatch1.c compiles has a set of enabled
\* features closed under implication: with SSSE3 come SSE3, SSE2 and SSE, with ASIMD
\* come NEON, NEON_FP16 and NEON_VFPV4; a target whose set is not closed does not compile
C23_ImpliedClosed ==
  prog = "build" =>
    /\ pc = "compiled" =>
         /\ "SSSE3" \in have => {"SSE3", "SSE2", "SSE"} \subseteq have
         /\ "ASIMD" \in have => {"NEON", "NEON_FP16", "NEON_VFPV4"} \subseteq have
    /\ pc = "error" =>
         \/ ("SSSE3" \in have /\ ~({"SSE3", "SSE2", "SSE"} \subseteq have))
         \/ ("ASIMD" \in have /\ ~({"NEON", "NEON_FP16", "NEON_VFPV4"} \subseteq have))

\* a target that enables SSSE3 and SSE41 with everything SSSE3 implies was compiled
C23_Witness ==
  /\ prog = "build"
  /\ pc = "compiled"
  /\ have = {"SSE", "SSE2", "SSE3", "SSSE3", "SSE41"}

\* C24: in simdchecker only a tier that is compiled in is ever probed, and the kernel
\* selected is that of a tier both compiled in and supported by the host; a tier
\* whose HAVE_<X> is 0 is neither probed nor selected although the host supports it,
\* and the chain then goes on to the next usable tier, or to the fallback if none is
C24_CompiledAndAvailable ==
  prog \in SimdProgs =>
    /\ \A i \in DOMAIN probed : probed[i][1] \in have
    /\ \A i \in DOMAIN Chain(prog) :
         Chain(prog)[i] \notin have =>
           (fptr # FuncOf(Chain(prog)[i]) /\ type # LabelOf(Chain(prog)[i]))
    /\ fptr \notin {"NULL", "increment_fallback"} =>
         \E t \in have \cap cpu : fptr = FuncOf(t) /\ type = LabelOf(t)
    /\ Resolved => ((fptr = "increment_fallback") <=> (Usable = {}))

\* the host supports AVX2, which is not compiled in, and SSE, which is: SSE was
\* selected and AVX2 never asked about
C24_Witness ==
  /\ prog = "simd152"
  /\ cpu = {"AVX2", "SSE"}
  /\ "AVX2" \notin have
  /\ pc = "call"
  /\ type = "SSE"
  /\ Len(probed) > 3

\* C25: in a simdchecker run fptr is assigned exactly once: it is not NULL once the
\* chain is through, and from the step that made it non-NULL on no step changes
\* fptr or type or calls a probe, so only the last probe asked has answered yes
C25_AssignedOnce ==
  /\ [](prog \in SimdProgs =>
          /\ Resolved => fptr # "NULL"
          /\ \A i \in DOMAIN probed : probed[i][2] => i = Len(probed))
  /\ [][(prog \in SimdProgs /\ fptr # "NULL") =>
          (fptr' = fptr /\ type' = type /\ probed' = probed)]_vars

\* the first tier of a full chain was selected and the statements of the nine tiers
\* below it and of the fallback have run
C25_Witness ==
  /\ prog = "simd152"
  /\ have = {Chain152[i] : i \in DOMAIN Chain152}
  /\ pc = "call"
  /\ Len(probed) = 1
  /\ type = "NEON"
  /\ fptr = "increment_neon"

\* C26: whichever extension declared in simdfuncs.h is the only one the host
\* supports, when it is compiled in the simdchecker chain selects its tier, not the
\* fallback
C26_EveryDeclaredSelectable ==
  \A x \in Exts :
    (prog = "simd152" /\ Resolved /\ cpu = {x} /\ x \in have) =>
      (fptr # "increment_fallback" /\ type # "fallback")

\* the caller's arguments argv[1..argc-1], in order
CallerTail == [k \in 1..(argc - 1) |-> argv[k]]

\* C30: for each of the four combinations of IS_PYTHON_SCRIPT and STATICALLY_LINKED,
\* the vector the exe wrapper hands to execv is the launcher prefix followed by the
\* caller's arguments argv[1..] in order, ended by a NULL inside args, and every
\* index written lies in 0..argc+2
C30_ExecVector ==
  (prog = "wrapper" /\ pc \in {"exec", "execed"}) =>
    /\ UpToNull(args, 0) = LauncherPrefix \o CallerTail
    /\ \E k \in DOMAIN args : args[k] = "NULL"
    /\ \A n \in DOMAIN written : written[n] \in 0..(argc + 2)

\* the three combinations other than IS_PYTHON_SCRIPT = STATICALLY_LINKED = 1
C30_OtherCombinations ==
  (macros.IS_PYTHON_SCRIPT = 1 /\ macros.STATICALLY_LINKED = 1) \/ C30_ExecVector

\* the notify file the claim describes for the lines ls: the path and a newline for
\* each artifact notification, in order
RECURSIVE NotifyLines(_)
NotifyLines(ls) ==
  IF ls = <<>> THEN <<>>
  ELSE (IF strncmp0(Head(ls), prefix, prefix_len) THEN <<Head(ls)[prefix_len + 1], "N">>
        ELSE <<>>) \o NotifyLines(Tail(ls))

\* C27: when rustc-wrapper has ended, the notify file holds exactly one line
\* "<path>\n" for every artifact notification the child wrote to stderr, in the
\* order emitted, however read() split or joined the bytes
C27_EveryArtifactNotified ==
  (prog = "rustc-wrapper" /\ pc \in {"done", "fault"} /\ child # "none") =>
    notify = NotifyLines(emitted)

\* the arguments given to rustc-wrapper, argv[1..argc-1]
Given == [k \in 1..(argc - 1) |-> argv[k]]

\* the arguments s without each "--notify" and the argument after it
RECURSIVE WithoutNotifyPairs(_)
WithoutNotifyPairs(s) ==
  IF s = <<>> THEN <<>>
  ELSE IF Head(s) = "--notify"
       THEN (IF Len(s) >= 2 THEN WithoutNotifyPairs(Tail(Tail(s))) ELSE <<>>)
       ELSE <<Head(s)>> \o WithoutNotifyPairs(Tail(s))

\* whether the last "--notify" that is not itself the file of one before it is
\* followed by an argument
RECURSIVE NotifyHasFile(_, _)
NotifyHasFile(s, sofar) ==
  IF s = <<>> THEN sofar
  ELSE IF Head(s) = "--notify"
       THEN (IF Len(s) >= 2 THEN NotifyHasFile(Tail(Tail(s)), TRUE) ELSE FALSE)
       ELSE NotifyHasFile(Tail(s), sofar)

\* what C28 says of a run in which a file is taken to be given when given holds
RustcRun(given) ==
  prog = "rustc-wrapper" =>
    /\ ~given => (child = "none" /\ (pc = "done" => rc = 1))
    /\ given =>
         /\ child # "none" => UpToNull(args, 0) = <<"rustc">> \o WithoutNotifyPairs(Given)
         /\ pc = "done" => child # "none"
    /\ status # -1 => (infd = <<>> /\ child \in {"exited 0", "exited 1"})
    /\ rc = 0 <=> (pc = "done" /\ status = 0)

\* C28: rustc-wrapper exits 1 without a child unless a "--notify" followed by a
\* file name is given (a "--notify" that is the last argument gives none); otherwise
\* rustc gets all arguments but the "--notify <file>" pairs, in order, the child is
\* waited for only when the pipe is empty and closed, and the exit status is 0
\* exactly when the wait status is 0
C28_ForwardAndWait == RustcRun(NotifyHasFile(Given, FALSE))

\* a run with a forwarded argument before and after the pair, output read, exit 0
C28_Witness ==
  /\ prog = "rustc-wrapper"
  /\ pc = "done"
  /\ rc = 0
  /\ status = 0
  /\ Given = <<"x", "--notify", "f", "x">>
  /\ Len(emitted) = MaxLines
  /\ notify # <<>>

\* C28 as stated: the exit with 1 and no child happens exactly when no argument is
\* "--notify"
C28_AsStated == RustcRun(\E k \in DOMAIN Given : Given[k] = "--notify")

\* the id of directory d as check_existing_runtime reads it equals BUILD_ID
IdReadMatches(d) == d \in DOMAIN fs /\ ReadUUID(fs[d], UuidLen) = BUILD_ID

\* the runtime-id.txt of directory d is BUILD_ID, character for character
IdFileEquals(d) == d \in DOMAIN fs /\ fs[d] = BUILD_ID

\* the positions of the arguments that start with --runtime
OptArgs == {k \in DOMAIN Given : appimage_starts_with_runtime(Given[k])}

FirstOpt == CHOOSE k \in OptArgs : \A j \in OptArgs : k <= j

\* the status C29 gives for the first --runtime argument
OptStatus ==
  LET opt == Given[FirstOpt][3]
  IN  IF opt \in {"help", "version", "info"} THEN 0
      ELSE IF opt = "setup" /\ FirstOpt < Len(Given) THEN 0
      ELSE 1

\* the first of the argument directories, then the current directory, that
\* satisfies Matches; NULL if none does
FirstMatching(Matches(_)) ==
  LET cand == Given \o <<CurrentDir>>
      hits == {k \in DOMAIN cand : Matches(cand[k])}
  IN  IF hits = {} THEN <<>>
      ELSE cand[CHOOSE k \in hits : \A j \in hits : k <= j]

\* what C29 says of a run, for a reading Matches of "the id equals BUILD_ID";
\* mayfail tells whether a run may end with EXIT_EXECERROR before the scan
RuntimeRun(Matches(_), mayfail) ==
  prog = "runtime" =>
    /\ pc \in {"execed", "execfailed"} =>
         /\ OptArgs = {}
         /\ runtime_dir # <<>>
         /\ runtime_dir = FirstMatching(Matches)
    /\ pc \in {"mount", "mounted", "mountfailed"} =>
         /\ OptArgs = {}
         /\ FirstMatching(Matches) = <<>>
    /\ pc = "done" =>
         \/ OptArgs # {} /\ rc = OptStatus
         \/ mayfail /\ argi = 0 /\ rc = EXIT_EXECERROR

\* C29: once appimage_detect_context has succeeded, the runtime execs the first
\* argument directory, then the current directory, whose runtime-id.txt read as
\* its first 36 characters not below '-' equals BUILD_ID, never another one, and
\* mounts itself if there is none; the first argument starting with --runtime ends
\* the run before that, with 0 for help, version, info and setup with a parameter
\* and 1 for an unknown option and setup without one
C29_FirstMatchingRuntime == RuntimeRun(IdReadMatches, TRUE)

\* the second argument directory is used: the first holds the id of another build
C29_Witness ==
  /\ prog = "runtime"
  /\ pc = "execed"
  /\ Given = <<(<<"d1">>), (<<"d2">>)>>
  /\ <<"d1">> \in DOMAIN fs
  /\ fs[<<"d1">>] = OtherId
  /\ CurrentDir \in DOMAIN fs
  /\ runtime_dir = <<"d2">>

\* C29 as stated: the file equals BUILD_ID, and every run scans its arguments
C29_AsStated == RuntimeRun(IdFileEquals, FALSE)

\* C29 as stated, in the runs in which appimage_detect_context succeeds
C29_AsStatedDetected == RuntimeRun(IdFileEquals, TRUE)

====
